---------------------------- MODULE Spec2Model ----------------------------
(***************************************************************************)
(* A model of lib/swiftpass.js: the signing and dispatch core of the       *)
(* Swiftpass payment-gateway client (canonical query string, signature,    *)
(* default injection, required-field validation, transport selection,      *)
(* response decoding, CSV report decoding).                                 *)
(*                                                                          *)
(* JavaScript values are records [t |-> type, v |-> text], where v is the   *)
(* text that string concatenation / toString() renders for the value.       *)
(* JavaScript objects are sequences of [k |-> key, v |-> value] entries in  *)
(* insertion order, with no key twice.                                      *)
(***************************************************************************)
EXTENDS Integers, Sequences, FiniteSets, TLC

---------------------------------------------------------------------------
(* JavaScript values *)

Str(s) == [t |-> "string", v |-> s]
Num(s) == [t |-> "number", v |-> s]
Bool(s) == [t |-> "boolean", v |-> s]
Null == [t |-> "null", v |-> "null"]
Undefined == [t |-> "undefined", v |-> "undefined"]

\* ToBoolean, as used by `if (x)`, `!x` and `a || b`.
Truthy(x) ==
  CASE x.t = "string" -> x.v # ""
    [] x.t = "number" -> x.v # "0"
    [] x.t = "boolean" -> x.v = "true"
    [] OTHER -> FALSE

\* a || b
Or(a, b) == IF Truthy(a) THEN a ELSE b

---------------------------------------------------------------------------
(* JavaScript objects, in insertion order *)

Keys(o) == [i \in 1..Len(o) |-> o[i].k]
KeySet(o) == {o[i].k : i \in 1..Len(o)}
Has(o, k) == k \in KeySet(o)
Get(o, k) == IF Has(o, k) THEN o[CHOOSE i \in 1..Len(o) : o[i].k = k].v ELSE Undefined
Set(o, k, x) ==
  IF Has(o, k)
  THEN [i \in 1..Len(o) |-> IF o[i].k = k THEN [k |-> k, v |-> x] ELSE o[i]]
  ELSE Append(o, [k |-> k, v |-> x])
Delete(o, k) == SelectSeq(o, LAMBDA e : e.k # k)

\* _.extend(dst, src): every enumerable key of src is assigned onto dst,
\* a key whose value is undefined included.
RECURSIVE Extend(_, _)
Extend(dst, src) ==
  IF src = <<>> THEN dst
  ELSE Extend(Set(dst, Head(src).k, Head(src).v), Tail(src))

---------------------------------------------------------------------------
(* Canonical query string *)

\* The key universe of the model in the order Array.prototype.sort() gives
\* (ascending UTF-16 code units).
SortedKeys ==
  << "a", "b", "body", "c", "long_url", "mch_create_ip", "mch_id", "nonce_str",
     "notify_url", "op_user_id", "out_refund_no", "out_trade_no", "pfx",
     "refund_fee", "refund_id", "service", "sign", "sub_appid", "sub_mch_id",
     "total_fee", "transaction_id" >>

Rank(k) == CHOOSE i \in 1..Len(SortedKeys) : SortedKeys[i] = k
LexLess(a, b) == Rank(a) < Rank(b)

RECURSIVE Insert(_, _)
Insert(k, s) ==
  IF s = <<>> THEN <<k>>
  ELSE IF LexLess(k, Head(s)) THEN <<k>> \o s
  ELSE <<Head(s)>> \o Insert(k, Tail(s))

\* keys.sort()
RECURSIVE Sort(_)
Sort(s) == IF s = <<>> THEN <<>> ELSE Insert(Head(s), Sort(Tail(s)))

\* parts.join(sep)
RECURSIVE Join(_, _)
Join(parts, sep) ==
  IF parts = <<>> THEN ""
  ELSE IF Len(parts) = 1 THEN parts[1]
  ELSE parts[1] \o sep \o Join(Tail(parts), sep)

\* Object.keys(object).filter(v !== undefined && v !== '')
KeptKeys(object) ==
  SelectSeq(Keys(object),
            LAMBDA k : Get(object, k) # Undefined /\ Get(object, k) # Str(""))

toQueryString(object) ==
  LET sorted == Sort(KeptKeys(object))
  IN Join([i \in 1..Len(sorted) |-> sorted[i] \o "=" \o Get(object, sorted[i]).v], "&")

---------------------------------------------------------------------------
(* Signature *)

\* The digest and the upper-casing of its hex text, kept symbolic: equal
\* inputs give equal digests and different inputs different ones.
md5(s) == "md5<" \o s \o ">"
toUpperCase(s) == "upper<" \o s \o ">"

getSign(pkg, partnerKey) ==
  LET string1 == toQueryString(Delete(pkg, "sign"))
      stringSignTemp == string1 \o "&key=" \o partnerKey.v
  IN Str(toUpperCase(md5(stringSignTemp)))

---------------------------------------------------------------------------
(* Program constants *)

URL == "https://pay.swiftpass.cn/pay/gateway"

URLS ==
  [ UNIFIED_ORDER |-> "pay.weixin.native",
    JS_PAY |-> "pay.weixin.jspay",
    ORDER_QUERY |-> "unified.trade.query",
    REFUND |-> "unified.trade.refund",
    REFUND_QUERY |-> "unified.trade.refundquery",
    CLOSE_ORDER |-> "unified.trade.close" ]

---------------------------------------------------------------------------
(* Account credentials *)

\* new Swiftpass(config)
Swiftpass(config) ==
  [ subAppId |-> config.subAppId,
    partnerKey |-> config.partnerKey,
    mchId |-> config.mchId,
    notifyUrl |-> config.notifyUrl,
    passphrase |-> Or(config.passphrase, config.mchId),
    pfx |-> config.pfx ]

---------------------------------------------------------------------------
(* Default expansion *)

\* The defaults table of _extendWithDefault; this.subMchId is never assigned.
Defaults(self, nonce) ==
  << [k |-> "sub_appid", v |-> self.subAppId],
     [k |-> "mch_id", v |-> self.mchId],
     [k |-> "sub_mch_id", v |-> Undefined],
     [k |-> "nonce_str", v |-> Str(nonce)],
     [k |-> "notify_url", v |-> self.notifyUrl],
     [k |-> "op_user_id", v |-> self.mchId],
     [k |-> "pfx", v |-> self.pfx] >>

RECURSIVE PickDefaults(_, _)
PickDefaults(defaults, keysNeedExtend) ==
  IF keysNeedExtend = <<>> THEN <<>>
  ELSE LET k == Head(keysNeedExtend)
           rest == PickDefaults(defaults, Tail(keysNeedExtend))
       IN IF Truthy(Get(defaults, k))
          THEN <<[k |-> k, v |-> Get(defaults, k)]>> \o rest
          ELSE rest

extendWithDefault(self, obj, keysNeedExtend, nonce) ==
  Extend(PickDefaults(Defaults(self, nonce), keysNeedExtend), obj)

---------------------------------------------------------------------------
(* _signedQuery, up to the decision to transmit *)

\* encodeURIComponent on the texts of the model's value universe: the one
\* text holding a character it escapes is "a b".
encodeURIComponent(s) == IF s = "a b" THEN "a%20b" ELSE s

\* if (params.long_url) params.long_url = encodeURIComponent(params.long_url)
EncodeLongUrl(params) ==
  IF Truthy(Get(params, "long_url"))
  THEN Set(params, "long_url", Str(encodeURIComponent(Get(params, "long_url").v)))
  ELSE params

\* for (key in params) if (v !== undefined && v !== null) params[key] = v.toString()
Stringify(params) ==
  [i \in 1..Len(params) |->
     IF params[i].v # Undefined /\ params[i].v # Null
     THEN [k |-> params[i].k, v |-> Str(params[i].v.v)]
     ELSE params[i]]

\* A requirement group 'k1|k2' is held as the list key.split('|') gives.
GroupString(alters) == Join(alters, "|")

Satisfied(params, alters) == \E i \in 1..Len(alters) : Truthy(Get(params, alters[i]))

\* required.forEach(...): the groups pushed onto `missing`, in order.
Missing(params, required) == SelectSeq(required, LAMBDA alters : ~Satisfied(params, alters))

MissingMessage(missing) ==
  "missing params " \o Join([i \in 1..Len(missing) |-> GroupString(missing[i])], ",")

\* params['service'] = url, on the object the facade passed in.
WithService(params, url) == Set(params, "service", url)

\* _.extend({sign: this._getSign(params)}, params)
WithSign(self, params) == Extend(<<[k |-> "sign", v |-> getSign(params, self.partnerKey)]>>, params)

\* The request mapping _signedQuery validates and hands to buildXml.
SignedParams(self, url, params, nonce) ==
  LET withService == WithService(params, url)
      extended == extendWithDefault(self, withService, <<"mch_id", "nonce_str", "sub_appid">>, nonce)
      signed == WithSign(self, extended)
  IN Stringify(EncodeLongUrl(signed))

---------------------------------------------------------------------------
(* The five operations *)

Ops == {"unifiedOrder", "orderQuery", "refund", "refundQuery", "closeOrder"}

\* The `required` option each operation passes to _signedQuery.
Required(o) ==
  CASE o = "unifiedOrder" ->
         << <<"body">>, <<"out_trade_no">>, <<"total_fee">>, <<"mch_create_ip">>,
            <<"mch_id">>, <<"service">> >>
    [] o = "orderQuery" -> << <<"transaction_id", "out_trade_no">> >>
    [] o = "refund" ->
         << <<"transaction_id", "out_trade_no">>, <<"out_refund_no">>,
            <<"total_fee">>, <<"refund_fee">> >>
    [] o = "refundQuery" ->
         << <<"transaction_id", "out_trade_no", "out_refund_no", "refund_id">> >>
    [] o = "closeOrder" -> << <<"out_trade_no">> >>

\* The `https` option each operation passes to _signedQuery (absent is falsy).
HttpsNever(o) == FALSE
Https(o) == o = "refund"

\* The object the operation hands to _signedQuery as `params`.
\*   unifiedOrder: the caller's own object, after params.notify_url = params.notify_url || this.notifyUrl
\*   refund:       a fresh object from _extendWithDefault(params, ['op_user_id'])
\*   the others:   the caller's own object
FacadeParams(self, o, p, nonce) ==
  CASE o = "unifiedOrder" -> Set(p, "notify_url", Or(Get(p, "notify_url"), self.notifyUrl))
    [] o = "refund" -> extendWithDefault(self, p, <<"op_user_id">>, nonce)
    [] OTHER -> p

\* The `url` argument: the service code.
ServiceOf(o, facadeParams) ==
  CASE o = "unifiedOrder" -> Or(Get(facadeParams, "service"), Str(URLS.JS_PAY))
    [] o = "orderQuery" -> Str(URLS.ORDER_QUERY)
    [] o = "refund" -> Str(URLS.REFUND)
    [] o = "refundQuery" -> Str(URLS.REFUND_QUERY)
    [] o = "closeOrder" -> Str(URLS.CLOSE_ORDER)

\* The caller's object once the call's synchronous part has run: refund works
\* on a copy, every other operation writes into the object it was given.
CallerAfter(self, o, p, nonce) ==
  LET fp == FacadeParams(self, o, p, nonce)
  IN IF o = "refund" THEN p ELSE WithService(fp, ServiceOf(o, fp))

\* The mapping before `sign` is added: what _getSign is given.
Extended(self, o, p, nonce) ==
  LET fp == FacadeParams(self, o, p, nonce)
  IN extendWithDefault(self, WithService(fp, ServiceOf(o, fp)),
                       <<"mch_id", "nonce_str", "sub_appid">>, nonce)

\* The mapping that is validated and, if complete, transmitted.
Transmitted(self, o, p, nonce) ==
  LET fp == FacadeParams(self, o, p, nonce)
  IN SignedParams(self, ServiceOf(o, fp), fp, nonce)

\* buildXml(obj): the document <xml>...</xml> holding the fields of obj.
buildXml(object) == [type |-> "doc", root |-> "xml", fields |-> object]

---------------------------------------------------------------------------
(* Callback values *)

NoError == [name |-> "null", message |-> ""]
StringError(msg) == [name |-> "string", message |-> msg]
TransportErrors == {[name |-> "Error", message |-> "ECONNREFUSED"]}
XMLParseError == [name |-> "XMLParseError", message |-> "Non-whitespace before first tag."]
\* new Error('...') named 'missParamError'; its message (a Chinese sentence
\* asking for the payment method) is given here in English.
MissParamError == [name |-> "missParamError", message |-> "pay method required"]

NoData == [kind |-> "undefined", body |-> <<>>, fields |-> <<>>]
RawData(xml) == [kind |-> "raw", body |-> <<xml>>, fields |-> <<>>]
MappingData(fields) == [kind |-> "mapping", body |-> <<>>, fields |-> fields]

---------------------------------------------------------------------------
(* Response bodies: what xml2js.parseString makes of them *)

Malformed == [type |-> "malformed", root |-> "", fields |-> <<>>]
EmptyBody == [type |-> "empty", root |-> "", fields |-> <<>>]
Doc(root, fields) == [type |-> "doc", root |-> root, fields |-> fields]

Bodies ==
  { Malformed, EmptyBody,
    Doc("xml", <<[k |-> "status", v |-> Str("0")], [k |-> "pay_info", v |-> Str("P")]>>),
    Doc("xml", <<[k |-> "status", v |-> Str("0")]>>),
    Doc("xml", <<[k |-> "pay_info", v |-> Str("")]>>),
    Doc("html", <<[k |-> "pay_info", v |-> Str("P")]>>) }

\* parseString's callback arguments: err set when the text is not XML,
\* json null for an empty text, otherwise {<root>: fields}.
ParseFails(xml) == xml.type = "malformed"
JsonIsNull(xml) == xml.type = "empty"

\* data = json ? json.xml : {}  -- "undefined" when the root is not <xml>.
Unwrapped(xml) ==
  IF JsonIsNull(xml) THEN MappingData(<<>>)
  ELSE IF xml.root = "xml" THEN MappingData(xml.fields)
  ELSE NoData

\* validate(xml, callback): the callback invocation it makes, or the
\* TypeError of reading .pay_info from undefined.
Validate(xml) ==
  IF ParseFails(xml) THEN [thrown |-> FALSE, err |-> XMLParseError, data |-> RawData(xml)]
  ELSE LET data == Unwrapped(xml)
       IN IF data.kind = "undefined"
          THEN [thrown |-> TRUE, err |-> NoError, data |-> NoData]
          ELSE IF ~Truthy(Get(data.fields, "pay_info"))
          THEN [thrown |-> FALSE, err |-> MissParamError, data |-> data]
          ELSE [thrown |-> FALSE, err |-> NoError, data |-> data]

---------------------------------------------------------------------------
(* CSV report decoding.  Texts are sequences of one-character strings. *)

Whitespace == {" ", "\t", "\n", "\r"}

\* text.trim()
RECURSIVE TrimLeft(_)
TrimLeft(s) == IF s # <<>> /\ Head(s) \in Whitespace THEN TrimLeft(Tail(s)) ELSE s
RECURSIVE TrimRight(_)
TrimRight(s) ==
  IF s # <<>> /\ s[Len(s)] \in Whitespace THEN TrimRight(SubSeq(s, 1, Len(s) - 1)) ELSE s
Trim(s) == TrimRight(TrimLeft(s))

\* s.split(sep) for a one-character separator: always at least one piece.
RECURSIVE SplitOn(_, _)
SplitOn(s, sep) ==
  IF \A i \in 1..Len(s) : s[i] # sep THEN <<s>>
  ELSE LET at == CHOOSE i \in 1..Len(s) : s[i] = sep /\ \A j \in 1..(i - 1) : s[j] # sep
       IN <<SubSeq(s, 1, at - 1)>> \o SplitOn(SubSeq(s, at + 1, Len(s)), sep)

\* s.split(/\r?\n/): a "\r" right before a line break belongs to the break.
SplitLines(s) ==
  LET pieces == SplitOn(s, "\n")
  IN [i \in 1..Len(pieces) |->
        IF i < Len(pieces) /\ pieces[i] # <<>> /\ pieces[i][Len(pieces[i])] = "\r"
        THEN SubSeq(pieces[i], 1, Len(pieces[i]) - 1)
        ELSE pieces[i]]

\* arr.slice(start, end) with 0-based bounds; a negative bound counts from
\* the end and is held at 0.
SliceBound(arr, n) ==
  IF n < 0 THEN (IF Len(arr) + n < 0 THEN 0 ELSE Len(arr) + n)
  ELSE IF n > Len(arr) THEN Len(arr) ELSE n
Slice(arr, start, end) == SubSeq(arr, SliceBound(arr, start) + 1, SliceBound(arr, end))

\* The backtick character; a TLA+ string cannot hold one, so it is written ^.
Backtick == "^"

\* A cell value: element 1 of the cell split on the backtick, undefined when
\* the cell holds none.
NoText == [defined |-> FALSE, text |-> <<>>]
Text(s) == [defined |-> TRUE, text |-> s]
CellValue(cell) ==
  LET parts == SplitOn(cell, Backtick)
  IN IF Len(parts) >= 2 THEN Text(parts[2]) ELSE NoText

\* titles[i] as a property name: "undefined" past the end of titles.
TitleKey(titles, i) ==
  IF i <= Len(titles) THEN titles[i] ELSE <<"u", "n", "d", "e", "f", "i", "n", "e", "d">>

\* row.split(',').forEach((cell, i) => rowData[titles[i]] = <cell value>)
RECURSIVE FillRow(_, _, _, _)
FillRow(rowData, titles, cells, i) ==
  IF i > Len(cells) THEN rowData
  ELSE FillRow(Set(rowData, TitleKey(titles, i), CellValue(cells[i])), titles, cells, i + 1)

\* toArr(rows) for a non-empty rows: the first row gives the titles, every
\* other row an object.
toArr(rows) ==
  LET titles == SplitOn(rows[1], ",")
      bodys == Tail(rows)
  IN [i \in 1..Len(bodys) |-> FillRow(<<>>, titles, SplitOn(bodys[i], ","), 1)]

\* rows.slice(0, rows.length - 2)
ListRows(rows) == Slice(rows, 0, Len(rows) - 2)

\* rows.slice(rows.length - 2, rows.length)
StatRowsFromTitles(rows) == <<rows[1], rows[Len(rows)]>>
StatRows(rows) == Slice(rows, Len(rows) - 2, Len(rows))

\* parseCsv(text).  toArr([]) reads rows[0].split of undefined: a TypeError.
parseCsv(t) ==
  LET rows == SplitLines(Trim(t))
  IN IF ListRows(rows) = <<>> \/ StatRows(rows) = <<>>
     THEN [done |-> TRUE, thrown |-> TRUE, list |-> <<>>, stat |-> <<>>]
     ELSE LET stats == toArr(StatRows(rows))
          IN [ done |-> TRUE, thrown |-> FALSE,
               list |-> toArr(ListRows(rows)),
               \* [0] of the stat array: undefined when it is empty
               stat |-> IF stats = <<>> THEN <<>> ELSE stats[1] ]

---------------------------------------------------------------------------
(* Inputs of the dispatch model *)

Configs ==
  { [ subAppId |-> Str("A"), partnerKey |-> Str("K"), mchId |-> Str("M"),
      notifyUrl |-> Str("N"), passphrase |-> Undefined, pfx |-> Str("PFX") ],
    [ subAppId |-> Undefined, partnerKey |-> Str("K"), mchId |-> Str("M"),
      notifyUrl |-> Undefined, passphrase |-> Str("pw"), pfx |-> Undefined ] }

\* _generateNonceStr() draws at random; two outcomes stand for all.
Nonces == {"n1", "n2"}

\* A mapping that satisfies every operation's requirement groups but
\* 'mch_id' and 'service', which the client supplies.
FullParams ==
  << [k |-> "body", v |-> Str("x")],
     [k |-> "out_trade_no", v |-> Str("x")],
     [k |-> "total_fee", v |-> Num("7")],
     [k |-> "mch_create_ip", v |-> Str("x")],
     [k |-> "out_refund_no", v |-> Str("x")],
     [k |-> "refund_fee", v |-> Num("7")] >>

ParamKeys ==
  { "body", "long_url", "mch_create_ip", "mch_id", "nonce_str", "notify_url",
    "op_user_id", "out_refund_no", "out_trade_no", "refund_fee", "refund_id",
    "service", "sign", "sub_appid", "total_fee", "transaction_id" }

ParamValues ==
  { Undefined, Null, Str(""), Str("x"), Str("a b"), Str(URLS.UNIFIED_ORDER),
    Num("0"), Bool("false") }

\* What a caller may pass: the full mapping or the empty one, with one key
\* set to any value or removed.
Inputs ==
  LET bases == {FullParams, <<>>}
  IN bases
     \cup {Set(b, k, x) : b \in bases, k \in ParamKeys, x \in ParamValues}
     \cup {Delete(b, k) : b \in bases, k \in ParamKeys}

---------------------------------------------------------------------------
(* State *)

VARIABLES
  self,     \* the client: its account credentials
  obj,      \* the caller's params object, as the facade has left it
  orig,     \* the caller's params object as first supplied
  pc,       \* "idle", "sent" (request in flight) or "done" (call ended)
  req,      \* the call in progress
  sent,     \* the transport invocations of the call in progress
  cb,       \* the callback invocations of the call in progress
  reply,    \* what the transport called back with
  thrown,   \* an exception escaped the call or its response handler
  qobj,     \* canonical encoder: the mapping given to _toQueryString
  qres,     \* canonical encoder: the string returned
  report,   \* CSV decoder: the rows of cells the report text was written from
  text,     \* CSV decoder: the report text
  csv       \* CSV decoder: what parseCsv returned

vars == <<self, obj, orig, pc, req, sent, cb, reply, thrown, qobj, qres, report, text, csv>>
dispatchVars == <<self, obj, orig, pc, req, sent, cb, reply, thrown>>
queryVars == <<qobj, qres>>
csvVars == <<report, text, csv>>

NoReq ==
  [ op |-> "none", given |-> <<>>, nonce |-> "", extended |-> <<>>,
    params |-> <<>>, missing |-> <<>> ]

NoReply == [kind |-> "none", err |-> NoError, body |-> EmptyBody]

NoResult == [done |-> FALSE, value |-> ""]
NoCsv == [done |-> FALSE, thrown |-> FALSE, list |-> <<>>, stat |-> <<>>]

DispatchIdle ==
  /\ pc = "idle"
  /\ req = NoReq
  /\ sent = <<>>
  /\ cb = <<>>
  /\ reply = NoReply
  /\ thrown = FALSE

QueryIdle == qobj = <<>> /\ qres = NoResult
CsvIdle == report = <<>> /\ text = <<>> /\ csv = NoCsv

Init ==
  /\ self \in {Swiftpass(c) : c \in Configs}
  /\ obj \in Inputs
  /\ orig = obj
  /\ DispatchIdle
  /\ QueryIdle
  /\ CsvIdle

---------------------------------------------------------------------------
(* Dispatch *)

\* The transport _signedQuery binds: options.https ? _httpsRequest : _httpRequest
TransportFor(o) == IF Https(o) THEN "_httpsRequest" ELSE "_httpRequest"

\* if (missing.length) return callback('missing params ' + missing.join(','))
ShortCircuitsNever(missing) == FALSE
ShortCircuits(missing) == Len(missing) # 0

\* One facade call up to the point where it returns: either the validation
\* error has been called back, or the request has been handed to transport.
Call(o, nonce) ==
  /\ pc = "idle"
  /\ LET params == Transmitted(self, o, obj, nonce)
         missing == Missing(params, Required(o))
     IN /\ req' = [ op |-> o, given |-> obj, nonce |-> nonce,
                    extended |-> Extended(self, o, obj, nonce),
                    params |-> params, missing |-> missing ]
        /\ IF ShortCircuits(missing)
           THEN /\ cb' = <<[err |-> StringError(MissingMessage(missing)), data |-> NoData]>>
                /\ sent' = <<>>
                /\ pc' = "done"
           ELSE /\ cb' = <<>>
                /\ sent' = <<[transport |-> TransportFor(o), url |-> URL, body |-> buildXml(params)]>>
                /\ pc' = "sent"
  /\ obj' = CallerAfter(self, o, obj, nonce)
  /\ UNCHANGED <<self, orig, reply, thrown, queryVars, csvVars>>

unifiedOrder == \E nonce \in Nonces : Call("unifiedOrder", nonce)
orderQuery == \E nonce \in Nonces : Call("orderQuery", nonce)
refund == \E nonce \in Nonces : Call("refund", nonce)
refundQuery == \E nonce \in Nonces : Call("refundQuery", nonce)
closeOrder == \E nonce \in Nonces : Call("closeOrder", nonce)

\* The transport calls back with an error: it is passed on as it is.
TransportFails ==
  /\ pc = "sent"
  /\ \E e \in TransportErrors :
       /\ reply' = [kind |-> "error", err |-> e, body |-> EmptyBody]
       /\ cb' = Append(cb, [err |-> e, data |-> NoData])
  /\ pc' = "done"
  /\ UNCHANGED <<self, obj, orig, req, sent, thrown, queryVars, csvVars>>

\* The transport calls back with a body: validate(body, callback).
TransportResponds ==
  /\ pc = "sent"
  /\ \E body \in Bodies :
       LET r == Validate(body)
       IN /\ reply' = [kind |-> "body", err |-> NoError, body |-> body]
          /\ thrown' = r.thrown
          /\ cb' = IF r.thrown THEN cb ELSE Append(cb, [err |-> r.err, data |-> r.data])
  /\ pc' = "done"
  /\ UNCHANGED <<self, obj, orig, req, sent, queryVars, csvVars>>

\* The caller is done with the call and may make the next one.
Return ==
  /\ pc = "done"
  /\ pc' = "idle"
  /\ req' = NoReq
  /\ sent' = <<>>
  /\ cb' = <<>>
  /\ reply' = NoReply
  /\ thrown' = FALSE
  /\ UNCHANGED <<self, obj, orig, queryVars, csvVars>>

Next ==
  \/ unifiedOrder
  \/ orderQuery
  \/ refund
  \/ refundQuery
  \/ closeOrder
  \/ TransportFails
  \/ TransportResponds
  \/ Return

Spec == Init /\ [][Next]_vars

---------------------------------------------------------------------------
(* Properties of the dispatch model *)

\* The requirement groups of operation o that no key of `params` satisfies.
UnsatisfiedGroups(params, o) ==
  SelectSeq(Required(o),
            LAMBDA g : \A i \in 1..Len(g) : ~Truthy(Get(params, g[i])))

\* What toString() makes of a value the coercion loop touches.
Coerced(x) == IF x = Undefined \/ x = Null THEN x ELSE Str(x.v)

C2_SignMatchesWire ==
  (pc = "sent" /\ ~Has(req.given, "sign"))
    => Get(sent[1].body.fields, "sign") = getSign(sent[1].body.fields, self.partnerKey)

\* C3: A requirement group is reported missing if and only if none of its
\* keys maps to a truthy value in the request parameters (caller input plus
\* injected defaults) taken as supplied, before string coercion.
C3_TruthinessAsSupplied ==
  pc # "idle" => req.missing = UnsatisfiedGroups(req.extended, req.op)

\* C4: Every call that passes validation issues exactly one outbound request,
\* to the fixed gateway endpoint, over the client-certificate HTTPS transport
\* if and only if the operation is refund, and over the plain one otherwise.
C4_OneRequestRightTransport ==
  (pc # "idle" /\ UnsatisfiedGroups(req.params, req.op) = <<>>)
    => /\ Len(sent) = 1
       /\ sent[1].url = URL
       /\ sent[1].transport = (IF req.op = "refund" THEN "_httpsRequest" ELSE "_httpRequest")

\* C4 witness: a refund went out over the certificate transport and was
\* answered with a payment-info document.
C4_Witness ==
  /\ pc = "done"
  /\ req.op = "refund"
  /\ Len(sent) = 1
  /\ sent[1].transport = "_httpsRequest"
  /\ Len(cb) = 1
  /\ cb[1].err = NoError

\* C6: Every call ends by invoking the callback with (error, data); no
\* exception escapes the call or its response handler, whatever the transport
\* outcome and the response body.
C6_NothingThrown == pc = "done" => (~thrown /\ Len(cb) = 1)

\* The account defaults each operation may inject.
InjectedKeys == {"mch_id", "nonce_str", "sub_appid", "notify_url", "op_user_id"}
Whitelist(o) ==
  {"mch_id", "nonce_str", "sub_appid"}
    \cup (IF o = "unifiedOrder" THEN {"notify_url"} ELSE {})
    \cup (IF o = "refund" THEN {"op_user_id"} ELSE {})

\* C7: Default injection never overrides caller-supplied values. In the
\* transmitted request a key the caller supplied keeps the caller's value,
\* and a key the caller did not supply carries a value only if it is on the
\* operation's whitelist and the account holds a non-empty default, which it
\* then carries.
C7_CallerValuesWin ==
  pc = "sent" =>
    \A k \in InjectedKeys :
      LET given == Get(req.given, k)
          wire == Get(req.params, k)
          default == Get(Defaults(self, req.nonce), k)
      IN /\ (Has(req.given, k) /\ given # Undefined) => wire = Coerced(given)
         /\ (~Has(req.given, k) /\ wire # Undefined)
              => (k \in Whitelist(req.op) /\ Truthy(default) /\ wire = Coerced(default))

\* The mapping a response document unwraps to: the children of <xml>.
ResponseFields(body) == IF body.type = "doc" /\ body.root = "xml" THEN body.fields ELSE <<>>

\* C8: Response classification. A transport failure is passed to the callback
\* as it is. After a successful transport the outcome is exactly one of:
\* XMLParseError with the raw body when the body is not valid XML; a
\* MissingParamError when it parses and the unwrapped mapping has no pay_info
\* (absent, or an empty element); error absent and data the unwrapped mapping
\* otherwise.
C8_ResponseClassification ==
  (pc = "done" /\ reply.kind # "none") =>
    /\ Len(cb) = 1
    /\ IF reply.kind = "error"
       THEN cb[1] = [err |-> reply.err, data |-> NoData]
       ELSE IF reply.body.type = "malformed"
       THEN cb[1] = [err |-> XMLParseError, data |-> RawData(reply.body)]
       ELSE IF ~Truthy(Get(ResponseFields(reply.body), "pay_info"))
       THEN cb[1].err = MissParamError
       ELSE cb[1] = [err |-> NoError, data |-> MappingData(ResponseFields(reply.body))]

\* C10: Calls are independent of each other. No operation modifies the
\* caller's mapping, so what a call transmits depends only on its operation,
\* the mapping as originally supplied and the account.
C10_CallsIndependent ==
  /\ obj = orig
  /\ pc = "sent" => req.params = Transmitted(self, req.op, orig, req.nonce)

---------------------------------------------------------------------------
(* The canonical encoder on its own *)

QueryKeys == {"a", "b", "c"}
QueryValues == {Undefined, Null, Str(""), Str("1"), Num("2")}

\* Every mapping over QueryKeys, in every insertion order.
QueryObjects ==
  UNION { { [i \in 1..Cardinality(ks) |-> [k |-> ord[i], v |-> val[ord[i]]]] :
              ord \in {f \in [1..Cardinality(ks) -> ks] :
                         \A i, j \in 1..Cardinality(ks) : i # j => f[i] # f[j]},
              val \in [ks -> QueryValues] } :
          ks \in SUBSET QueryKeys }

\* A fixed client for the specifications that make no use of one.
AnyClient == Swiftpass(CHOOSE c \in Configs : c.notifyUrl = Undefined)

InitQuery ==
  /\ self = AnyClient
  /\ obj = <<>>
  /\ orig = <<>>
  /\ DispatchIdle
  /\ qobj \in QueryObjects
  /\ qres = NoResult
  /\ CsvIdle

\* this._toQueryString(qobj)
Encode ==
  /\ ~qres.done
  /\ qres' = [done |-> TRUE, value |-> toQueryString(qobj)]
  /\ UNCHANGED <<dispatchVars, qobj, csvVars>>

NextQuery == Encode

SpecQuery == InitQuery /\ [][NextQuery]_vars

\* C5: _toQueryString returns the k=v pairs joined by '&', keys ascending,
\* holding exactly the keys whose value is not undefined, not null and not
\* the empty string (so the result does not depend on insertion order).
C5_CanonicalEncoding ==
  qres.done =>
    LET kept == SelectSeq(SortedKeys,
                          LAMBDA k : /\ Has(qobj, k)
                                     /\ Get(qobj, k) \notin {Undefined, Null, Str("")})
    IN qres.value = Join([i \in 1..Len(kept) |-> kept[i] \o "=" \o Get(qobj, kept[i]).v], "&")

---------------------------------------------------------------------------
(* The CSV decoder on its own *)

MaxRows == 4

CellH == <<"h">>
CellG == <<"g">>
CellX1 == <<"x", Backtick, "1">>
CellY2 == <<"y", Backtick, "2">>
Cell34 == <<Backtick, "3", Backtick, "4">>

\* Rows of cells: plain titles, labelled values, a repeated title, a cell
\* with two backticks, rows of one, two and three cells.
RowChoices ==
  { <<CellH, CellG>>, <<CellX1, CellY2>>, <<Cell34, CellG>>, <<CellX1>>,
    <<CellH, CellH>>, <<CellY2, CellX1, Cell34>> }

LineBreaks == {<<"\n">>, <<"\r", "\n">>}
Trailers == {<<>>, <<"\n">>}

RECURSIVE JoinChars(_, _)
JoinChars(parts, sep) ==
  IF parts = <<>> THEN <<>>
  ELSE IF Len(parts) = 1 THEN parts[1]
  ELSE parts[1] \o sep \o JoinChars(Tail(parts), sep)

\* The report text for rows of cells.
Render(rows, eol, trailer) ==
  JoinChars([i \in 1..Len(rows) |-> JoinChars(rows[i], <<",">>)], eol) \o trailer

InitCsv ==
  /\ self = AnyClient
  /\ obj = <<>>
  /\ orig = <<>>
  /\ DispatchIdle
  /\ QueryIdle
  /\ \E n \in 1..MaxRows : report \in [1..n -> RowChoices]
  /\ \E eol \in LineBreaks, trailer \in Trailers : text = Render(report, eol, trailer)
  /\ csv = NoCsv

\* this.parseCsv(text)
Parse ==
  /\ ~csv.done
  /\ csv' = parseCsv(text)
  /\ UNCHANGED <<dispatchVars, queryVars, report, text>>

NextCsv == Parse

SpecCsv == InitCsv /\ [][NextCsv]_vars

\* The value of a cell as decoded: the text from its first backtick to its
\* second, or to the end when it has one only.
BetweenBackticks(cell) ==
  LET ticks == {i \in 1..Len(cell) : cell[i] = Backtick}
  IN IF ticks = {} THEN NoText
     ELSE LET first == CHOOSE i \in ticks : \A j \in ticks : i <= j
              later == {i \in ticks : i > first}
              second == IF later = {} THEN Len(cell) + 1
                        ELSE CHOOSE i \in later : \A j \in later : i <= j
          IN Text(SubSeq(cell, first + 1, second - 1))

\* rowData is the object that pairs the cells of `cells` with the titles of
\* `titles` by position (value(cell) being what is read off a cell): its keys
\* are the titles of the positions that hold a cell, and each key maps to the
\* value of the last cell under it.
PairsByPosition(rowData, titles, cells, value(_)) ==
  /\ KeySet(rowData) = {TitleKey(titles, i) : i \in 1..Len(cells)}
  /\ Len(rowData) = Cardinality(KeySet(rowData))
  /\ \A i \in 1..Len(cells) :
       (\A j \in (i + 1)..Len(cells) : TitleKey(titles, j) # TitleKey(titles, i))
         => \E e \in 1..Len(rowData) :
              rowData[e] = [k |-> TitleKey(titles, i), v |-> value(cells[i])]

=============================================================================
